---- MODULE Spec2Model ----
(***************************************************************************)
(* Wordle tracker bot (src/Wordle_Tracker.py): the message parser, the     *)
(* identity resolver, the two PostgreSQL tables and the handlers that      *)
(* write them.                                                             *)
(*                                                                         *)
(* Text is a sequence of symbols.  A symbol is one character, except for   *)
(* six fixed strings that the code only ever treats as a whole and that    *)
(* no juxtaposition of the other symbols can produce:                      *)
(*   YG    "Your group is on a"     DS   "day streak!"                     *)
(*   CROWN the crown emoji          MARK "unresolved_"                     *)
(*   DM    "DISCORD_MENTION" (only ever produced by str.replace)           *)
(*   USERHASH "User#" (only ever produced by get_user_display_name)        *)
(* In the texts drawn here YG and DS stand between spaces or line ends,    *)
(* never next to "@" or to a word character.                               *)
(* A date is the ordinal of its day; strftime('%Y-%m-%d') renders distinct *)
(* days as distinct strings and nothing in the program parses them back.   *)
(***************************************************************************)
EXTENDS Integers, Sequences, FiniteSets, TLC

VARIABLES
    members,        \* guild.members of the one guild the bot is in, in directory order
    wordle_scores,  \* table wordle_scores: set of rows
    user_stats,     \* table user_stats: set of rows
    today,          \* the wall clock's current day (datetime.now().date())
    ingests,        \* messages handled so far (bounds the run)
    select_ok,      \* whether the database driver of this run takes the SELECT of
                    \* resolve_pending_usernames as it is written
    last            \* what the last handler or call did (history, for the properties)

vars == <<members, wordle_scores, user_stats, today, ingests, select_ok, last>>

(***************************************************************************)
(* Bounds of the model                                                     *)
(***************************************************************************)
MaxMembers == 2     \* members in a directory drawn for the resolver
MaxDay == 2         \* the clock stops advancing at this day
MaxJoins == 2       \* members that join the guild
MaxIngests == 2     \* messages the bot handles
MaxLines == 2       \* score lines in a message drawn for the parser

(***************************************************************************)
(* Symbols and strings                                                     *)
(***************************************************************************)
YG == "Your group is on a"
DS == "day streak!"
CROWN == "CROWN"
MARK == "unresolved_"
DM == "DISCORD_MENTION"
SP == " "
NL == "\n"
None == <<"None">>

DigitChars == <<"0", "1", "2", "3", "4", "5", "6", "7", "8", "9">>
Digits == {DigitChars[i] : i \in 1..10}
Letters == {"a", "b", "A", "B"}

\* \w of the re module: letters, digits and the underscore
WordChars == Letters \cup Digits \cup {"_", MARK}

\* \s of the re module
Spaces == {SP, NL}

\* str.lower, one symbol
Lower(c) == IF c = "A" THEN "a" ELSE IF c = "B" THEN "b" ELSE c

\* str.lower
LowerStr(s) == [i \in 1..Len(s) |-> Lower(s[i])]

\* needle in hay
Contains(hay, needle) ==
    \E i \in 0..(Len(hay) - Len(needle)) :
        SubSeq(hay, i + 1, i + Len(needle)) = needle

\* s.startswith(p)
StartsWith(s, p) == Len(s) >= Len(p) /\ SubSeq(s, 1, Len(p)) = p

\* str(n) for n >= 0
RECURSIVE DecStr(_)
DecStr(n) ==
    IF n < 10 THEN <<DigitChars[n + 1]>>
    ELSE DecStr(n \div 10) \o <<DigitChars[(n % 10) + 1]>>

DigitVal(c) == CHOOSE v \in 0..9 : DigitChars[v + 1] = c

\* the largest value an INTEGER column holds
MaxInteger == 2147483647

\* stands for every integer above MaxInteger: Python's int has no upper limit
Big == -1

\* 10 * h + d
IntStep(h, d) ==
    IF h = Big \/ h > (MaxInteger - d) \div 10 THEN Big ELSE 10 * h + d

\* int(s) for a string of digits
RECURSIVE IntOf(_)
IntOf(s) ==
    IF Len(s) = 0 THEN 0
    ELSE IntStep(IntOf(SubSeq(s, 1, Len(s) - 1)), DigitVal(s[Len(s)]))

\* s.replace('unresolved_', ''): every occurrence goes, not only a leading one
StripMarker(s) == SelectSeq(s, LAMBDA c : c # MARK)

\* a resolver that hands the token back as it came
Unresolved_Bare(username) == username

\* the f-string f"unresolved_{username}"
Unresolved(username) == <<MARK>> \o username

\* s.startswith('unresolved_')
IsUnresolved(s) == StartsWith(s, <<MARK>>)

(***************************************************************************)
(* resolve_username_to_user_id                                             *)
(***************************************************************************)
\* member.global_name and <test>: None and '' are falsy
HasGlobal(m) == m.global_name # None /\ Len(m.global_name) > 0

\* the condition of the first loop
ExactMatch(m, username_lower) ==
    \/ LowerStr(m.display_name) = username_lower
    \/ LowerStr(m.name) = username_lower
    \/ (HasGlobal(m) /\ LowerStr(m.global_name) = username_lower)

\* the condition of the second loop
PartialMatch(m, username_lower) ==
    \/ Contains(LowerStr(m.display_name), username_lower)
    \/ Contains(LowerStr(m.name), username_lower)
    \/ (HasGlobal(m) /\ Contains(LowerStr(m.global_name), username_lower))

Min(S) == CHOOSE x \in S : \A y \in S : x <= y

\* a guild object, and the None the caller passes in a direct message
Guild(ms) == [present |-> TRUE, members |-> ms]
NoGuild == [present |-> FALSE, members |-> <<>>]

\* the two loops over guild.members, each left at its first match
FirstMatch(ms, exact, partial, username) ==
    IF exact # {} THEN DecStr(ms[Min(exact)].id)
    ELSE IF partial # {} THEN DecStr(ms[Min(partial)].id)
    ELSE Unresolved(username)

\* one loop that takes the first member matching either way
MatchIn_OneLoop(ms, username_lower, username) ==
    FirstMatch(ms, {i \in 1..Len(ms) : \/ ExactMatch(ms[i], username_lower)
                                       \/ PartialMatch(ms[i], username_lower)},
               {}, username)

MatchIn(ms, username_lower, username) ==
    FirstMatch(ms, {i \in 1..Len(ms) : ExactMatch(ms[i], username_lower)},
               {i \in 1..Len(ms) : PartialMatch(ms[i], username_lower)}, username)

resolve_username_to_user_id(guild, username) ==
    IF ~guild.present THEN Unresolved(username)
    ELSE MatchIn(guild.members, LowerStr(username), username)

(***************************************************************************)
(* parse_wordle_message                                                    *)
(***************************************************************************)
\* the end of the longest run of symbols of class C that starts at i
\* (i - 1 when s[i] is not of the class): a greedy \d+, \w+ or \s*
RECURSIVE RunEnd(_, _, _)
RunEnd(s, i, C) ==
    IF i <= Len(s) /\ s[i] \in C THEN RunEnd(s, i + 1, C) ELSE i - 1

\* the rest of the streak pattern once "Your group is on a " matched at i and
\* the digits run up to j
StreakTail(s, i, j) ==
    /\ j >= i + 2
    /\ j + 2 <= Len(s)
    /\ s[j + 1] = SP
    /\ s[j + 2] = DS

\* a gate that looks for the two ends of the phrase only, as on_message does
StreakSearch_TwoEnds(s) == Contains(s, <<YG>>) /\ Contains(s, <<DS>>)

\* re.search(r"Your group is on a (\d+) day streak!", s) is not None
StreakSearch(s) ==
    \E i \in 1..Len(s) :
        /\ i + 4 <= Len(s)
        /\ s[i] = YG
        /\ s[i + 1] = SP
        /\ StreakTail(s, i, RunEnd(s, i + 2, Digits))

\* s.split('\n')
RECURSIVE SplitLines(_)
SplitLines(s) ==
    IF \A i \in 1..Len(s) : s[i] # NL THEN <<s>>
    ELSE LET i == Min({k \in 1..Len(s) : s[k] = NL})
         IN  <<SubSeq(s, 1, i - 1)>> \o SplitLines(SubSeq(s, i + 1, Len(s)))

\* s.strip()
RECURSIVE Strip(_)
Strip(s) ==
    IF Len(s) = 0 THEN s
    ELSE IF s[1] \in Spaces THEN Strip(Tail(s))
    ELSE IF s[Len(s)] \in Spaces THEN Strip(SubSeq(s, 1, Len(s) - 1))
    ELSE s

\* (\d+)/6:\s*(.+) with the digits from q to r: the digits run to the first
\* non-digit, "/6:" follows, and at least one symbol is left for (.+)
ScoreMatchOf(line, crown, q, r) ==
    [ok |-> /\ r >= q
            /\ r + 4 <= Len(line)
            /\ line[r + 1] = "/"
            /\ line[r + 2] = "6"
            /\ line[r + 3] = ":",
     is_winner |-> crown,                                   \* match.group(1) is not None
     digits |-> SubSeq(line, q, r),                         \* match.group(2)
     users_text |-> Strip(SubSeq(line, r + 4, Len(line)))]  \* match.group(3).strip()

\* the digits start after the crown and its white space, or at p
ScoreMatchFrom(line, crown, q) == ScoreMatchOf(line, crown, q, RunEnd(line, q, Digits))

\* the match of score_pattern that starts at p, if there is one
ScoreMatchAt(line, p) ==
    IF line[p] = CROWN
    THEN ScoreMatchFrom(line, TRUE, RunEnd(line, p + 1, Spaces) + 1)
    ELSE ScoreMatchFrom(line, FALSE, p)

NoMatch == [ok |-> FALSE, is_winner |-> FALSE, digits |-> <<>>, users_text |-> <<>>]

ScoreMatchAmong(line, starts) ==
    IF starts = {} THEN NoMatch ELSE ScoreMatchAt(line, Min(starts))

\* re.search(score_pattern, line): the leftmost match
ScoreSearch(line) ==
    ScoreMatchAmong(line, {p \in 1..Len(line) : ScoreMatchAt(line, p).ok})

\* <@!?(\d+)> at symbol i, with the digits from q to r
DiscordAt(u, i, q, r) ==
    /\ i + 1 <= Len(u)
    /\ u[i] = "<"
    /\ u[i + 1] = "@"
    /\ r >= q
    /\ r + 1 <= Len(u)
    /\ u[r + 1] = ">"

\* where the digits of a mention at i start: after "<@" or after "<@!"
DiscordDigits(u, i) == IF i + 2 <= Len(u) /\ u[i + 2] = "!" THEN i + 3 ELSE i + 2

\* re.findall(r'<@!?(\d+)>', u), scanning from symbol i
RECURSIVE FindDiscordFrom(_, _)
RECURSIVE FindDiscordStep(_, _, _, _)
FindDiscordStep(u, i, q, r) ==
    IF DiscordAt(u, i, q, r) THEN <<SubSeq(u, q, r)>> \o FindDiscordFrom(u, r + 2)
    ELSE FindDiscordFrom(u, i + 1)

FindDiscordFrom(u, i) ==
    IF i > Len(u) THEN <<>>
    ELSE FindDiscordStep(u, i, DiscordDigits(u, i), RunEnd(u, DiscordDigits(u, i), Digits))

\* re.findall(r'@(\w+)', u), scanning from symbol i
RECURSIVE FindPlainFrom(_, _)
RECURSIVE FindPlainStep(_, _, _)
FindPlainStep(u, i, r) ==
    IF u[i] = "@" /\ r >= i + 1
    THEN <<SubSeq(u, i + 1, r)>> \o FindPlainFrom(u, r + 1)
    ELSE FindPlainFrom(u, i + 1)

FindPlainFrom(u, i) ==
    IF i > Len(u) THEN <<>> ELSE FindPlainStep(u, i, RunEnd(u, i + 1, WordChars))

\* u.replace("<@", "DISCORD_MENTION")
RECURSIVE ReplaceMention(_)
ReplaceMention(u) ==
    IF Len(u) = 0 THEN u
    ELSE IF Len(u) >= 2 /\ u[1] = "<" /\ u[2] = "@"
         THEN <<DM>> \o ReplaceMention(SubSeq(u, 3, Len(u)))
    ELSE <<u[1]>> \o ReplaceMention(Tail(u))

\* the condition under which a plain mention is processed:
\* f"@{username}" not in users_text.replace("<@", "DISCORD_MENTION")
PlainKept(replaced, username) == ~Contains(replaced, <<"@">> \o username)

\* the plain mentions the second loop processes
KeptAmong(plain_mentions, replaced) ==
    SelectSeq(plain_mentions, LAMBDA n : PlainKept(replaced, n))

KeptPlain(users_text) ==
    KeptAmong(FindPlainFrom(users_text, 1), ReplaceMention(users_text))

\* a second loop that leaves the winner flag at its default
MentionScores_FlagLost(discord_mentions, kept, score, is_winner, guild) ==
    [i \in 1..Len(discord_mentions) |->
        [user |-> discord_mentions[i], score |-> score, is_winner |-> is_winner]]
    \o
    [i \in 1..Len(kept) |->
        [user |-> resolve_username_to_user_id(guild, kept[i]),
         score |-> score, is_winner |-> FALSE]]

\* the records of the two loops over the mentions of one line, without dates
MentionScores(discord_mentions, kept, score, is_winner, guild) ==
    [i \in 1..Len(discord_mentions) |->
        [user |-> discord_mentions[i], score |-> score, is_winner |-> is_winner]]
    \o
    [i \in 1..Len(kept) |->
        [user |-> resolve_username_to_user_id(guild, kept[i]),
         score |-> score, is_winner |-> is_winner]]

MatchScores(match, guild) ==
    IF ~match.ok THEN <<>>
    ELSE MentionScores(FindDiscordFrom(match.users_text, 1), KeptPlain(match.users_text),
                       IntOf(match.digits), match.is_winner, guild)

\* the records one line appends, without their dates
LineScores(line, guild) == MatchScores(ScoreSearch(line), guild)

RECURSIVE AllLineScores(_, _)
AllLineScores(lines, guild) ==
    IF Len(lines) = 0 THEN <<>>
    ELSE LineScores(lines[1], guild) \o AllLineScores(Tail(lines), guild)

\* the value parse_wordle_message returns: None, or a list of WordleScore
NotApplicable == [applicable |-> FALSE, scores |-> <<>>]
Scores(list) == [applicable |-> TRUE, scores |-> list]

\* a parse that returns the list as it is, empty or not
Dated_EmptyList(found, clock) ==
    Scores([i \in 1..Len(found) |->
               [user |-> found[i].user, score |-> found[i].score,
                date |-> clock[i] - 1, is_winner |-> found[i].is_winner]])

\* record i is built while the clock reads day clock[i]; the list, or None for
\* an empty one
Dated(found, clock) ==
    IF Len(found) = 0 THEN NotApplicable
    ELSE Scores([i \in 1..Len(found) |->
                    [user |-> found[i].user, score |-> found[i].score,
                     date |-> clock[i] - 1, is_winner |-> found[i].is_winner]])

parse_wordle_message(message_content, guild, clock) ==
    IF ~StreakSearch(message_content) THEN NotApplicable
    ELSE Dated(AllLineScores(SplitLines(message_content), guild), clock)

(***************************************************************************)
(* get_user_display_name                                                   *)
(***************************************************************************)
USERHASH == "User#"

\* message.guild.id of the one guild
TheGuildId == 7

\* str(message.guild.id) if message.guild else "DM"
GuildIdStr(in_guild) == IF in_guild THEN DecStr(TheGuildId) ELSE <<"D", "M">>

\* int(s) does not raise ValueError: digits, single underscores between them,
\* white space around them
IsIntLiteral(s) ==
    LET t == Strip(s)
    IN  /\ Len(t) > 0
        /\ \A i \in 1..Len(t) : t[i] \in Digits \cup {"_"}
        /\ t[1] \in Digits
        /\ t[Len(t)] \in Digits
        /\ \A i \in 1..(Len(t) - 1) : ~(t[i] = "_" /\ t[i + 1] = "_")

\* int(s) where it does not raise
IntLiteral(s) == IntOf(SelectSeq(Strip(s), LAMBDA c : c \in Digits))

\* guild.get_member(n) and bot.get_user(n): the position in the directory, 0 for None
MemberIndex(ms, n) ==
    LET hit == {i \in 1..Len(ms) : ms[i].id = n}
    IN  IF hit = {} THEN 0 ELSE Min(hit)

\* x or y, for strings
OrElse(x, y) == IF x # None /\ Len(x) > 0 THEN x ELSE y

\* ms is the directory of the one guild the bot is in
get_user_display_name(ms, guild_id, user_id) ==
    IF IsUnresolved(user_id) THEN StripMarker(user_id)
    ELSE
        LET placeholder == <<USERHASH>> \o user_id
            is_dm == guild_id = <<"D", "M">>
            \* bot.get_guild(int(guild_id)): the guild, or None
            guild_found == ~is_dm /\ IntLiteral(guild_id) = TheGuildId
            i == MemberIndex(ms, IntLiteral(user_id))
        IN  IF ~is_dm /\ ~IsIntLiteral(guild_id) THEN placeholder   \* ValueError
            ELSE IF ~IsIntLiteral(user_id) THEN placeholder          \* ValueError
            ELSE IF i = 0 THEN placeholder
            ELSE IF guild_found THEN OrElse(ms[i].display_name, ms[i].name)
            \* a User's display_name is its global_name or its name
            ELSE OrElse(OrElse(ms[i].global_name, ms[i].name), ms[i].name)

(***************************************************************************)
(* The tables and the functions that write them                            *)
(***************************************************************************)
\* INSERT ... ON CONFLICT (guild_id, username, date) DO UPDATE SET score, is_winner
UpsertScore(table, guild_id, score) ==
    {r \in table : ~(r.guild_id = guild_id /\ r.username = score.user /\ r.date = score.date)}
    \cup {[guild_id |-> guild_id, username |-> score.user, score |-> score.score,
            date |-> score.date, is_winner |-> score.is_winner]}

\* the INSERT raises: the score does not fit the column score INTEGER
ScoreRaises(score) == score.score = Big

\* the statements of the loop when none of them raises
RECURSIVE SaveEach(_, _, _)
SaveEach(table, guild_id, scores) ==
    IF Len(scores) = 0 THEN table
    ELSE SaveEach(UpsertScore(table, guild_id, scores[1]), guild_id, Tail(scores))

\* a statement that raises is caught and printed by the except clause and leaves
\* the transaction aborted: every later statement of the loop raises as well and
\* is caught as well, and conn.commit() ends the aborted transaction as a
\* rollback, without an error.  The function returns normally either way.
save_wordle_scores(table, guild_id, scores) ==
    IF \E i \in 1..Len(scores) : ScoreRaises(scores[i]) THEN table
    ELSE SaveEach(table, guild_id, scores)

\* INSERT ... VALUES (.., score, 1, wins) ON CONFLICT (guild_id, username) DO UPDATE SET
\* total_score + score, games_played + 1, wins + (1 if is_winner else 0)
UpsertStats(table, guild_id, score) ==
    LET w == IF score.is_winner THEN 1 ELSE 0
        old == {r \in table : r.guild_id = guild_id /\ r.username = score.user}
    IN  IF old = {}
        THEN table \cup {[guild_id |-> guild_id, username |-> score.user,
                          total_score |-> score.score, games_played |-> 1, wins |-> w]}
        ELSE (table \ old) \cup
             {[guild_id |-> r.guild_id, username |-> r.username,
               total_score |-> r.total_score + score.score,
               games_played |-> r.games_played + 1, wins |-> r.wins + w] : r \in old}

\* the INSERT raises: the score, or the total it adds up to, does not fit the
\* column total_score INTEGER
StatsRaises(table, guild_id, score) ==
    \/ score.score = Big
    \/ \E r \in table : /\ r.guild_id = guild_id
                        /\ r.username = score.user
                        /\ r.total_score > MaxInteger - score.score

\* one turn of the loop inside the open transaction
UpdateStep(txn, guild_id, score) ==
    IF txn.failed \/ StatsRaises(txn.table, guild_id, score)
    THEN [txn EXCEPT !.failed = TRUE]
    ELSE [txn EXCEPT !.table = UpsertStats(txn.table, guild_id, score)]

RECURSIVE UpdateEach(_, _, _)
UpdateEach(txn, guild_id, scores) ==
    IF Len(scores) = 0 THEN txn
    ELSE UpdateEach(UpdateStep(txn, guild_id, scores[1]), guild_id, Tail(scores))

\* conn.commit(): of an aborted transaction nothing is kept
StatsCommitted(before, txn) == IF txn.failed THEN before ELSE txn.table

\* errors are caught and printed as in save_wordle_scores
update_user_stats(table, guild_id, scores) ==
    StatsCommitted(table, UpdateEach([table |-> table, failed |-> FALSE], guild_id, scores))

(***************************************************************************)
(* resolve_pending_usernames                                               *)
(***************************************************************************)
\* username LIKE 'unresolved_%': every stored username is a string of digits or
\* begins with the marker, so the one-character wildcard _ only ever meets the
\* marker's own underscore
Like(username) == IsUnresolved(username)

\* the SELECT DISTINCT ... UNION ... of the two tables
UnresolvedEntries(scores, stats, guild_id) ==
    {r.username : r \in {x \in scores : x.guild_id = guild_id /\ Like(x.username)}}
    \cup {r.username : r \in {x \in stats : x.guild_id = guild_id /\ Like(x.username)}}

\* UPDATE <table> SET username = new WHERE guild_id = .. AND username = old
Renamed(table, guild_id, old, new) ==
    {IF r.guild_id = guild_id /\ r.username = old
     THEN [r EXCEPT !.username = new] ELSE r : r \in table}

\* the UPDATE of wordle_scores breaks UNIQUE(guild_id, username, date)
ScoresConflict(table, guild_id, old, new) ==
    \E r \in table, q \in table :
        /\ r.guild_id = guild_id /\ r.username = old
        /\ q.guild_id = guild_id /\ q.username = new
        /\ q.date = r.date

\* the UPDATE of user_stats breaks PRIMARY KEY (guild_id, username)
StatsConflict(table, guild_id, old, new) ==
    \E r \in table, q \in table :
        /\ r.guild_id = guild_id /\ r.username = old
        /\ q.guild_id = guild_id /\ q.username = new

\* the two UPDATEs of one entry inside the open transaction; a statement that
\* fails raises, and the loop is left with the transaction open
PendingUpdate(txn, guild_id, old_username, new_user_id) ==
    IF txn.failed \/ IsUnresolved(new_user_id) THEN txn
    ELSE IF ScoresConflict(txn.scores, guild_id, old_username, new_user_id)
    THEN [txn EXCEPT !.failed = TRUE]
    ELSE IF StatsConflict(txn.stats, guild_id, old_username, new_user_id)
    THEN [txn EXCEPT !.failed = TRUE,
                     !.scores = Renamed(txn.scores, guild_id, old_username, new_user_id)]
    ELSE [txn EXCEPT !.scores = Renamed(txn.scores, guild_id, old_username, new_user_id),
                     !.stats = Renamed(txn.stats, guild_id, old_username, new_user_id),
                     !.upgraded = txn.upgraded \cup {old_username}]

\* one turn of the loop over unresolved_entries
PendingStep(txn, guild, guild_id, old_username) ==
    PendingUpdate(txn, guild_id, old_username,
                  resolve_username_to_user_id(guild, StripMarker(old_username)))

\* a loop that is left after its first turn
PendingLoop_FirstOnly(txn, guild, guild_id, entries) ==
    IF Len(entries) = 0 THEN txn
    ELSE PendingStep(txn, guild, guild_id, entries[1])

RECURSIVE PendingLoop(_, _, _, _)
PendingLoop(txn, guild, guild_id, entries) ==
    IF Len(entries) = 0 THEN txn
    ELSE PendingLoop(PendingStep(txn, guild, guild_id, entries[1]), guild, guild_id,
                     Tail(entries))

\* a connection that commits every statement as it is executed
Committed_Autocommit(before, txn) == txn

\* what the transaction leaves in the tables: conn.commit() is reached only when
\* no statement raised; otherwise the connection is dropped and nothing is kept
Committed(before, txn) ==
    IF txn.failed THEN [before EXCEPT !.failed = TRUE] ELSE txn

\* entries: the rows of the SELECT, in the order the database returned them.
\* executes: the SELECT is passed to cur.execute together with parameters while
\* its two LIKE patterns hold a % that is not doubled; a driver that takes the
\* text as written runs the query, one that formats the text with the parameters
\* rejects it and the call raises before any UPDATE
resolve_pending_usernames(guild, scores, stats, entries, executes) ==
    LET before == [scores |-> scores, stats |-> stats, failed |-> FALSE, upgraded |-> {}]
    IN  IF ~guild.present THEN before
        ELSE IF ~executes THEN [before EXCEPT !.failed = TRUE]
        ELSE Committed(before, PendingLoop(before, guild, DecStr(TheGuildId), entries))

\* the orders in which a SELECT without ORDER BY may return a set of rows
Orders(S) ==
    {f \in [1..Cardinality(S) -> S] : \A i, j \in 1..Cardinality(S) : i # j => f[i] # f[j]}

(***************************************************************************)
(* Inputs: message texts, members, tokens                                  *)
(***************************************************************************)
RECURSIVE Concat(_)
Concat(ss) == IF Len(ss) = 0 THEN <<>> ELSE ss[1] \o Concat(Tail(ss))

\* the mentions after the colon of one score line
BareA == <<"@", "a">>
BareAb == <<"@", "A", "b">>
Bracket1 == <<"<", "@", "1", ">">>
BracketBang1 == <<"<", "@", "!", "1", ">">>
BracketBang2 == <<"<", "@", "!", "2", ">">>
OpenA == <<"<", "@", "a">>
OpenMarkA == <<"<", "@", MARK, "a">>

MentionLists ==
    { <<BareA>>, <<BareA, <<SP>>, BareAb>>, <<Bracket1>>, <<BracketBang1>>,
      <<BracketBang1, <<SP>>, BracketBang1>>, <<BracketBang1, <<SP>>, BareA>>,
      <<Bracket1, <<SP>>, <<"@", "1">>>>, <<OpenA>>, <<<<"a">>>> }

\* "<crown> <n>/6: <mentions>"
ScoreLine(crown, n, mentions) ==
    (IF crown THEN <<CROWN, SP>> ELSE <<>>) \o n \o <<"/", "6", ":", SP>> \o Concat(mentions)

ScoreLines ==
    {ScoreLine(TRUE, <<"3">>, ms) : ms \in MentionLists}
    \cup {ScoreLine(FALSE, <<"4">>, ms) : ms \in MentionLists}

\* the first line of a message: the streak phrase, and three texts without it
GoodHeader == <<YG, SP, "2", "0", SP, DS>>
Headers == {GoodHeader, <<YG, SP, DS>>, <<YG, SP, "2", SP>>, <<YG, SP, "2", "0", DS>>}

RECURSIVE WithLines(_, _)
WithLines(text, lines) ==
    IF Len(lines) = 0 THEN text
    ELSE WithLines(text \o <<NL>> \o lines[1], Tail(lines))

SeqsUpTo(S, n) == UNION {[1..k -> S] : k \in 0..n}

\* the example report of the test scripts: 3 score lines, 5 bare mentions
ExampleMessage ==
    WithLines(GoodHeader,
              << ScoreLine(TRUE, <<"3">>, <<BareAb>>),
                 ScoreLine(FALSE, <<"4">>, <<BareA, <<SP>>, <<"@", "b">>>>),
                 ScoreLine(FALSE, <<"5">>, <<<<"@", "B", "1">>, <<SP>>, <<"@", "A", "B">>>>) >>)

\* a numerator that no INTEGER column holds
Oversize == <<"3", "0", "0", "0", "0", "0", "0", "0", "0", "0">>

\* numerators that (\d+) matches besides 3, 4 and 5
OddNumerators == {<<"0">>, <<"7">>, <<"1", "2">>, <<"0", "6">>, Oversize}

OddTexts ==
    {WithLines(GoodHeader, <<ScoreLine(c, n, <<BracketBang1>>)>>) :
        c \in BOOLEAN, n \in OddNumerators}

ParseTexts ==
    {WithLines(h, ls) : h \in Headers, ls \in SeqsUpTo(ScoreLines, MaxLines)}
    \cup {ExampleMessage} \cup OddTexts

Member(id, name, display_name, global_name) ==
    [id |-> id, name |-> name, display_name |-> display_name, global_name |-> global_name]

\* the members a directory of the resolver is drawn from
ResolvePool ==
    { Member(1, <<"a", "b">>, <<"A", "B">>, None),
      Member(2, <<"b">>, <<"B">>, <<"a">>),
      Member(3, <<"a", "a", "b">>, <<"a", "a", "b">>, None),
      Member(12, <<"1">>, <<"1", "a">>, None),
      Member(4, <<"b", "b">>, <<"b", "b">>, <<"A", "b">>) }

\* the sequences over S of at most n elements, none twice
Directories(S, n) ==
    {d \in SeqsUpTo(S, n) : \A i, j \in 1..Len(d) : i # j => d[i] # d[j]}

ResolveTokens ==
    { <<"a">>, <<"A">>, <<"a", "b">>, <<"A", "b">>, <<"b">>, <<"b", "a">>, <<"1">>,
      <<"_">>, <<MARK, "a">>, <<"a", MARK>>, <<"z", "z", "z", "_", "u">>, <<>> }

\* the directories of the guild a text is parsed in
ParseDirectories ==
    { <<>>,
      <<Member(5, <<"a", "b">>, <<"A", "b">>, None), Member(6, <<"a">>, <<"a">>, None)>> }

\* the members that join the guild, and the texts the Wordle bot posts there
JoinPool ==
    { Member(2, <<"a", "b">>, <<"A", "b">>, None),
      Member(3, <<"1">>, <<"1">>, None) }

PostedLines ==
    {ScoreLine(TRUE, <<"3">>, ms) : ms \in {<<OpenA>>, <<BareA>>}}
    \cup {ScoreLine(FALSE, <<"4">>, ms) :
             ms \in {<<Bracket1>>, <<BracketBang2, <<SP>>, OpenA>>, <<OpenMarkA>>}}

PostedTexts == {WithLines(GoodHeader, <<l>>) : l \in PostedLines}


\* the text of a direct message of the Wordle bot, and of a report that another
\* author posts
DirectTexts ==
    { WithLines(GoodHeader, <<ScoreLine(FALSE, <<"4">>, <<BracketBang2, <<SP>>, OpenA>>)>>),
      WithLines(GoodHeader, <<ScoreLine(FALSE, Oversize, <<BracketBang2>>)>>),
      <<YG, SP, DS>> }

(***************************************************************************)
(* The bot                                                                 *)
(***************************************************************************)
NoTables == wordle_scores = {} /\ user_stats = {}

Init ==
    /\ members = <<>>
    /\ NoTables
    /\ today = 1
    /\ ingests = 0
    /\ select_ok \in BOOLEAN
    /\ last = [op |-> "ready"]

\* the day datetime.now() falls on while record i is built, when midnight passes
\* after `cross` records
ClockOf(cross, n) == [i \in 1..n |-> IF i <= cross THEN today ELSE today + 1]

\* the number of records a parse builds: one reading of the clock each
ClockReads(content, guild) ==
    IF StreakSearch(content) THEN Len(AllLineScores(SplitLines(content), guild)) ELSE 0

\* the guilds a message reaches the bot in: none, or the one guild with the
\* members that have joined so far
PostedGuilds == {NoGuild} \cup {Guild(ms) : ms \in Directories(JoinPool, MaxJoins)}

\* parse_wordle_message up to the dates of its records: whether the streak
\* pattern was found, and the records of the lines
Undated(message_content, guild) ==
    [gate |-> StreakSearch(message_content),
     found |-> IF StreakSearch(message_content)
               THEN AllLineScores(SplitLines(message_content), guild) ELSE <<>>]

\* Undated, worked out once for every text and guild of the bot
UndatedOf ==
    [c \in PostedTexts \cup DirectTexts |-> [g \in PostedGuilds |-> Undated(c, g)]]

\* parse_wordle_message(message_content, guild, clock) from Undated(message_content, guild)
Stamped(undated, clock) ==
    IF ~undated.gate THEN NotApplicable ELSE Dated(undated.found, clock)

\* the handler once the message is parsed: the two writes and the confirmation
\* `if scores:` holds for a list that is not empty; gate tells whether the parse
\* found the streak pattern, returned_list tells a list from None, sent_guild is
\* the guild_id the records were written under
Truthy(scores) == scores.applicable /\ Len(scores.scores) > 0

Record(scores, guild_id, gate) ==
    /\ wordle_scores' = IF Truthy(scores)
                        THEN save_wordle_scores(wordle_scores, guild_id, scores.scores)
                        ELSE wordle_scores
    /\ user_stats' = IF Truthy(scores)
                     THEN update_user_stats(user_stats, guild_id, scores.scores)
                     ELSE user_stats
    /\ last' = [op |-> "message", recorded |-> Truthy(scores), gate |-> gate,
                returned_list |-> scores.applicable,
                sent_count |-> Len(scores.scores),
                sent_date |-> IF Truthy(scores) THEN scores.scores[1].date ELSE 0,
                sent_guild |-> IF Truthy(scores) THEN guild_id ELSE <<>>]

\* midnight passes after `cross` of the n records the parse builds
ParsedAt(undated, guild_id, cross, n) ==
    /\ cross < n => today < MaxDay
    /\ today' = IF cross < n THEN today + 1 ELSE today
    /\ \E scores \in {Stamped(undated, ClockOf(cross, n))} :
        Record(scores, guild_id, undated.gate)

Parsed(undated, guild_id) ==
    \E cross \in 0..Len(undated.found) :
        ParsedAt(undated, guild_id, cross, Len(undated.found))

\* on_message: from_wordle is message.author.id == 1211781489931452447
on_message(from_wordle, content, guild, guild_id) ==
    /\ IF from_wordle /\ Contains(content, <<YG>>) /\ Contains(content, <<DS>>)
       THEN Parsed(UndatedOf[content][guild], guild_id)
       ELSE today' = today /\ Record(NotApplicable, guild_id, FALSE)
    /\ UNCHANGED <<members, select_ok>>

\* a message of the Wordle bot in the guild's channel
OnMessage ==
    /\ ingests < MaxIngests
    /\ ingests' = ingests + 1
    /\ \E content \in PostedTexts :
        on_message(TRUE, content, Guild(members), GuildIdStr(TRUE))

\* a message of any other author in the guild's channel
OnOtherMessage ==
    /\ ingests < MaxIngests
    /\ ingests' = ingests + 1
    /\ \E content \in DirectTexts :
        on_message(FALSE, content, Guild(members), GuildIdStr(TRUE))

\* a direct message: message.guild is None
OnDirectMessage ==
    /\ ingests < MaxIngests
    /\ ingests' = ingests + 1
    /\ \E content \in DirectTexts :
        on_message(TRUE, content, NoGuild, GuildIdStr(FALSE))

\* the handlers that call resolve_pending_usernames
ReOps == {"member_join", "cleanup"}

\* `first` is what the call before upgraded, when that was a re-resolution with
\* the directory as it is now
Resolved(op, done, same_directory) ==
    /\ wordle_scores' = done.scores
    /\ user_stats' = done.stats
    /\ last' = [op |-> op, failed |-> done.failed, upgraded |-> done.upgraded,
                repeat |-> last.op \in ReOps /\ same_directory,
                first |-> IF last.op \in ReOps /\ same_directory
                          THEN last.upgraded ELSE {}]

Reresolve(op, guild, same_directory) ==
    \E entries \in Orders(UnresolvedEntries(wordle_scores, user_stats, DecStr(TheGuildId))) :
        \E done \in {resolve_pending_usernames(guild, wordle_scores, user_stats, entries,
                                               select_ok)} :
            Resolved(op, done, same_directory)

\* on_member_join: the member is in guild.members when the event is dispatched
OnMemberJoin ==
    /\ Len(members) < MaxJoins
    /\ \E m \in JoinPool :
        /\ \A i \in 1..Len(members) : members[i].id # m.id
        /\ members' = Append(members, m)
        /\ Reresolve("member_join", Guild(members'), FALSE)
    /\ UNCHANGED <<today, ingests, select_ok>>

\* a member joins while the bot is not running: the member is in guild.members
\* when the bot is back, and no on_member_join was dispatched for it
JoinUnseen ==
    /\ Len(members) < MaxJoins
    /\ \E m \in JoinPool :
        /\ \A i \in 1..Len(members) : members[i].id # m.id
        /\ members' = Append(members, m)
    /\ last' = [op |-> "restart"]
    /\ UNCHANGED <<wordle_scores, user_stats, today, ingests, select_ok>>

\* the cleanup command, sent in the guild
Cleanup ==
    /\ Reresolve("cleanup", Guild(members), TRUE)
    /\ UNCHANGED <<members, today, ingests, select_ok>>

\* midnight passes
Tick ==
    /\ today < MaxDay
    /\ today' = today + 1
    /\ last' = [op |-> "tick"]
    /\ UNCHANGED <<members, wordle_scores, user_stats, ingests, select_ok>>

Next == OnMessage \/ OnOtherMessage \/ OnDirectMessage \/ OnMemberJoin \/ JoinUnseen \/ Cleanup \/ Tick

Spec == Init /\ [][Next]_vars

\* the aliases of a member: primary name, display name, global alias if it has one
AliasesOf(m) ==
    {m.name, m.display_name} \cup (IF m.global_name = None THEN {} ELSE {m.global_name})

\* an alias of m equals the token, letter case aside
HasAlias(m, token) == \E a \in AliasesOf(m) : LowerStr(a) = LowerStr(token)

\* the token occurs inside an alias of m, letter case aside
InAlias(m, token) == \E a \in AliasesOf(m) : Contains(LowerStr(a), LowerStr(token))

\* the keys (guild_id, username) of a table that carry the unresolved marker
MarkedKeys(table) == {<<r.guild_id, r.username>> : r \in {x \in table : IsUnresolved(x.username)}}

\* C6: no step rewrites a marked token in one table and leaves it marked in the other
C6_PairedRewrite ==
    [][\A k \in MarkedKeys(wordle_scores) \cup MarkedKeys(user_stats) :
          /\ (k \in MarkedKeys(wordle_scores) /\ k \notin MarkedKeys(wordle_scores'))
                => k \notin MarkedKeys(user_stats')
          /\ (k \in MarkedKeys(user_stats) /\ k \notin MarkedKeys(user_stats'))
                => k \notin MarkedKeys(wordle_scores')]_vars

\* a re-resolution call rewrote a token, and it is marked in neither table now
C6_Witness ==
    /\ last.op \in ReOps
    /\ ~last.failed
    /\ \E u \in last.upgraded :
        /\ <<DecStr(TheGuildId), u>> \notin MarkedKeys(wordle_scores)
        /\ <<DecStr(TheGuildId), u>> \notin MarkedKeys(user_stats)

\* the guess of a marked token (the token without its marker prefix) resolves
\* against the directory: it occurs in an alias of a member
GuessResolves(ms, username) == \E i \in 1..Len(ms) : InAlias(ms[i], Tail(username))

\* from table to after, only participant keys of rows whose token resolves
\* were replaced, by the ID of a member
OnlyUpgrades(ms, table, after) ==
    /\ \A r \in table :
          (~IsUnresolved(r.username) \/ ~GuessResolves(ms, r.username)) => r \in after
    /\ \A r \in table :
          r \in after \/ \E i \in 1..Len(ms) : [r EXCEPT !.username = DecStr(ms[i].id)] \in after
    /\ \A q \in after :
          q \in table \/ \E r \in table : IsUnresolved(r.username)
                                            /\ q = [r EXCEPT !.username = q.username]

RecordsOf(row) ==
    {r \in wordle_scores : r.guild_id = row.guild_id /\ r.username = row.username}

\* the sum of the scores of a set of score records
RECURSIVE SumOfScores(_)
SumOfScores(rows) ==
    IF rows = {} THEN 0
    ELSE LET r == CHOOSE x \in rows : TRUE
         IN  r.score + SumOfScores(rows \ {r})

\* C18: for every guild and participant, games_played is the number of score
\* records stored for the participant, total_score the sum of their scores and
\* wins the number of them flagged winner; every score record has such a row
C18_StoresAgree ==
    /\ \A row \in user_stats :
          /\ row.games_played = Cardinality(RecordsOf(row))
          /\ row.total_score = SumOfScores(RecordsOf(row))
          /\ row.wins = Cardinality({r \in RecordsOf(row) : r.is_winner})
    /\ \A r \in wordle_scores :
          \E row \in user_stats : row.guild_id = r.guild_id /\ row.username = r.username

\* C14: a parse never returns an empty list, and when it returns None the
\* handler writes to neither table and sends no confirmation
C14_NoEmptyList ==
    [][last'.op = "message" =>
          /\ last'.returned_list => last'.sent_count > 0
          /\ ~last'.returned_list =>
                /\ ~last'.recorded
                /\ wordle_scores' = wordle_scores
                /\ user_stats' = user_stats]_vars

\* a message passed the gate, no line of it gave a record, and the tables hold
\* what an earlier message left in them
C14_Witness ==
    /\ last.op = "message"
    /\ last.gate
    /\ ~last.returned_list
    /\ ~last.recorded
    /\ wordle_scores # {}

\* C12: when the handler has reported the records of a message as recorded, the
\* writes did not fail: the score store holds a row of that guild for the
\* reported date and the statistics store holds a row of that guild
C12_FailuresSurfaced ==
    (last.op = "message" /\ last.recorded) =>
        /\ \E r \in wordle_scores :
              r.guild_id = last.sent_guild /\ r.date = last.sent_date
        /\ \E r \in user_stats : r.guild_id = last.sent_guild

\* the usernames of the guild's rows, in both tables, that carry the marker
GuildMarked ==
    {k[2] : k \in {x \in MarkedKeys(wordle_scores) \cup MarkedKeys(user_stats) :
                      x[1] = DecStr(TheGuildId)}}

\* C7: after a re-resolution call no token is left marked whose guess (the token
\* without its marker prefix) matches a member of the directory
C7_AllUpgraded ==
    last.op \in ReOps =>
        \A u \in GuildMarked : \A i \in 1..Len(members) : ~InAlias(members[i], Tail(u))

\* C8: a re-resolution call that follows another one, with the same directory and
\* nothing in between, upgrades no token and leaves both tables as they were
C8_Idempotent ==
    [][(last.op \in ReOps /\ last'.op \in ReOps /\ members' = members)
          => /\ last'.upgraded = {}
             /\ wordle_scores' = wordle_scores
             /\ user_stats' = user_stats]_vars

\* the second of two calls in a row ran to its commit, after the first had
\* upgraded a token
C8_Witness ==
    /\ last.op \in ReOps
    /\ ~last.failed
    /\ last.repeat
    /\ last.first # {}
    /\ last.upgraded = {}

(***************************************************************************)
(* parse_wordle_message on its own: a text and a guild are drawn, then     *)
(* parsed while the clock runs                                             *)
(***************************************************************************)
InitParse ==
    /\ members \in ParseDirectories
    /\ NoTables
    /\ today = 1
    /\ ingests = 0
    /\ select_ok = TRUE
    /\ last \in {[op |-> "text", content |-> t, in_guild |-> g] :
                    t \in ParseTexts, g \in BOOLEAN}
    /\ ~last.in_guild => members = <<>>

ParseAt(content, in_guild, guild, cross, n) ==
    /\ cross < n => today < MaxDay
    /\ today' = IF cross < n THEN today + 1 ELSE today
    /\ last' = [op |-> "parsed", content |-> content, in_guild |-> in_guild,
                result |-> parse_wordle_message(content, guild, ClockOf(cross, n))]

ParseIn(content, in_guild, guild, n) ==
    \E cross \in 0..n : ParseAt(content, in_guild, guild, cross, n)

ParseWith(content, in_guild, guild) ==
    ParseIn(content, in_guild, guild, ClockReads(content, guild))

ParseCall ==
    /\ last.op = "text"
    /\ ParseWith(last.content, last.in_guild,
                 IF last.in_guild THEN Guild(members) ELSE NoGuild)
    /\ UNCHANGED <<members, wordle_scores, user_stats, ingests, select_ok>>

SpecParse == InitParse /\ [][ParseCall]_vars

\* the participants of the records a parse returned, in order
Users(result) == [i \in 1..Len(result.scores) |-> result.scores[i].user]

\* the guild the drawn text is parsed in
DrawnGuild == IF last.in_guild THEN Guild(members) ELSE NoGuild

\* one participant per @name of every matched score line, as the resolver names it
BareOf(match, guild) ==
    IF ~match.ok THEN <<>>
    ELSE [i \in 1..Len(FindPlainFrom(match.users_text, 1)) |->
             resolve_username_to_user_id(guild, FindPlainFrom(match.users_text, 1)[i])]

RECURSIVE ExpectedBare(_, _)
ExpectedBare(lines, guild) ==
    IF Len(lines) = 0 THEN <<>>
    ELSE BareOf(ScoreSearch(lines[1]), guild) \o ExpectedBare(Tail(lines), guild)

\* the IDs of the bracketed mentions of every matched score line
BracketsOf(match) == IF ~match.ok THEN <<>> ELSE FindDiscordFrom(match.users_text, 1)

RECURSIVE ExpectedBrackets(_)
ExpectedBrackets(lines) ==
    IF Len(lines) = 0 THEN <<>>
    ELSE BracketsOf(ScoreSearch(lines[1])) \o ExpectedBrackets(Tail(lines))

CountOf(s, c) == Cardinality({i \in 1..Len(s) : s[i] = c})

\* C1: a text that passes the gate and whose mentions are all bare @names yields
\* exactly one record per mention of a matched score line, in order, with
\* participant resolve(directory, name)
C1_BareMentionsRecorded ==
    (last.op = "parsed" /\ StreakSearch(last.content) /\ CountOf(last.content, "<") = 0)
        => Users(last.result) = ExpectedBare(SplitLines(last.content), DrawnGuild)

\* C2: a text that passes the gate and whose mentions are all bracketed <@ID> or
\* <@!ID> yields exactly one record per mention, with participant the ID
C2_OneRecordPerBracket ==
    (/\ last.op = "parsed"
     /\ StreakSearch(last.content)
     /\ CountOf(last.content, "@") = Len(ExpectedBrackets(SplitLines(last.content))))
        => Users(last.result) = ExpectedBrackets(SplitLines(last.content))

\* the streak phrase "Your group is on a <digits> day streak!" occurs in s
HasStreakPhrase(s) ==
    \E i \in 1..Len(s), k \in 1..Len(s) :
        /\ i + k + 3 <= Len(s)
        /\ s[i] = YG
        /\ s[i + 1] = SP
        /\ \A d \in 1..k : s[i + 1 + d] \in Digits
        /\ s[i + k + 2] = SP
        /\ s[i + k + 3] = DS

\* C3: a text without the streak phrase parses to None, whatever lines it has
C3_Gate ==
    (last.op = "parsed" /\ ~HasStreakPhrase(last.content)) => last.result = NotApplicable

\* a text without the phrase that has a score line with a mention was parsed
C3_Witness ==
    /\ last.op = "parsed"
    /\ ~HasStreakPhrase(last.content)
    /\ Len(AllLineScores(SplitLines(last.content), DrawnGuild)) > 0
    /\ last.result = NotApplicable

\* the numerator of a score line: the digits that end at its first "/"
NumeratorOf(line) ==
    LET slash == Min({p \in 1..Len(line) : line[p] = "/"})
        first == Min({q \in 1..slash : \A k \in q..(slash - 1) : line[k] \in Digits})
    IN  IntOf(SubSeq(line, first, slash - 1))

\* score and winner flag of the records of one line: as many as the line gives,
\* each with the line's numerator, flagged iff the line carries the crown
LineMarks(line, count) ==
    [i \in 1..count |-> [score |-> NumeratorOf(line), is_winner |-> CountOf(line, CROWN) > 0]]

RECURSIVE ExpectedMarks(_, _)
ExpectedMarks(lines, guild) ==
    IF Len(lines) = 0 THEN <<>>
    ELSE LineMarks(lines[1], Len(LineScores(lines[1], guild)))
         \o ExpectedMarks(Tail(lines), guild)

\* score and winner flag of the records a parse returned, in order
Marks(result) ==
    [i \in 1..Len(result.scores) |->
        [score |-> result.scores[i].score, is_winner |-> result.scores[i].is_winner]]

\* C17: every record of a parse carries the numerator of the line it comes from
\* and is flagged winner iff that line carries the crown
C17_LineScoreAndFlag ==
    (last.op = "parsed" /\ StreakSearch(last.content))
        => Marks(last.result) = ExpectedMarks(SplitLines(last.content), DrawnGuild)

\* a crowned line and a plain line each gave a record, one of them through the
\* plain-mention loop
C17_Witness ==
    /\ last.op = "parsed"
    /\ \E i, j \in 1..Len(last.result.scores) :
          /\ last.result.scores[i].is_winner
          /\ last.result.scores[i].score = 3
          /\ IsUnresolved(last.result.scores[i].user)
          /\ ~last.result.scores[j].is_winner
          /\ last.result.scores[j].score = 4

\* C15: every record a parse returns has a score from 1 to 6
C15_ScoreRange ==
    last.op = "parsed" =>
        \A i \in 1..Len(last.result.scores) : last.result.scores[i].score \in 1..6

\* C4: the records of one parse all carry the same date
C4_SharedDate ==
    last.op = "parsed" =>
        \A i, j \in 1..Len(last.result.scores) :
            last.result.scores[i].date = last.result.scores[j].date

(***************************************************************************)
(* resolve_username_to_user_id and get_user_display_name on their own: a   *)
(* directory and a token are drawn, the token is resolved, the reference   *)
(* is shown                                                                *)
(***************************************************************************)
\* the participant refs a caller hands to get_user_display_name: unresolved
\* tokens, IDs of members and of nobody, and strings that are neither
DisplayRefs ==
    { <<MARK, "a">>, <<MARK, MARK, "a">>, <<MARK>>, <<MARK, "1">>,
      <<"1">>, <<"2">>, <<"1", "2">>, <<"9">>, <<"1", "_", "2">>, <<SP, "1", SP>>,
      <<"a">>, <<"a", MARK>>, <<"1", "a">>, <<"_", "1">>, <<>> }

\* the guild ids it is called with: the guild's, "DM", the id of a guild the bot
\* is not in, and a string that is no number
DisplayGuildIds == {GuildIdStr(TRUE), GuildIdStr(FALSE), <<"8">>, <<"a">>}

InitResolve ==
    /\ members \in Directories(ResolvePool, MaxMembers)
    /\ NoTables
    /\ today = 1
    /\ ingests = 0
    /\ select_ok = TRUE
    /\ last \in {[op |-> "token", token |-> t, in_guild |-> g] :
                    t \in ResolveTokens, g \in BOOLEAN}
               \cup {[op |-> "ref", ref |-> r, guild_id |-> g] :
                        r \in DisplayRefs, g \in DisplayGuildIds}

ResolveCall ==
    /\ last.op = "token"
    /\ last' = [op |-> "resolved", token |-> last.token, in_guild |-> last.in_guild,
                ref |-> resolve_username_to_user_id(
                            IF last.in_guild THEN Guild(members) ELSE NoGuild, last.token)]
    /\ UNCHANGED <<members, wordle_scores, user_stats, today, ingests, select_ok>>

DisplayCall ==
    /\ last.op = "resolved"
    /\ last' = [op |-> "displayed", token |-> last.token, in_guild |-> last.in_guild,
                ref |-> last.ref,
                shown |-> get_user_display_name(members, GuildIdStr(last.in_guild), last.ref)]
    /\ UNCHANGED <<members, wordle_scores, user_stats, today, ingests, select_ok>>

\* get_user_display_name for a drawn ref and guild id
ShowCall ==
    /\ last.op = "ref"
    /\ last' = [op |-> "shown", ref |-> last.ref, guild_id |-> last.guild_id,
                shown |-> get_user_display_name(members, last.guild_id, last.ref)]
    /\ UNCHANGED <<members, wordle_scores, user_stats, today, ingests, select_ok>>

NextResolve == ResolveCall \/ DisplayCall \/ ShowCall

SpecResolve == InitResolve /\ [][NextResolve]_vars

\* the positions of the drawn directory whose member the token names exactly
ExactAt(token) == {i \in 1..Len(members) : HasAlias(members[i], token)}

\* no directory is supplied, or no entry of it matches the token in either tier
NoEntryMatches(token, in_guild) ==
    ~in_guild \/ \A i \in 1..Len(members) : ~InAlias(members[i], token)

\* C5: when some member has an alias equal to the token, resolve returns the ID
\* of the first such member in directory order, whatever matches as a substring
C5_ExactTier ==
    (last.op = "resolved" /\ last.in_guild /\ ExactAt(last.token) # {})
        => last.ref = DecStr(members[Min(ExactAt(last.token))].id)

\* an earlier member matched only as a substring, and the later exact one won
C5_Witness ==
    /\ last.op = "resolved"
    /\ last.in_guild
    /\ \E i, j \in 1..Len(members) :
        /\ i < j
        /\ InAlias(members[i], last.token)
        /\ ~HasAlias(members[i], last.token)
        /\ HasAlias(members[j], last.token)
        /\ last.ref = DecStr(members[j].id)

\* C9: display_name(resolve(directory, token)) is the token again when the token
\* matches no directory entry or no directory is supplied
C9_RoundTrip ==
    (last.op = "displayed" /\ NoEntryMatches(last.token, last.in_guild))
        => last.shown = last.token

\* the ref is the decimal ID of no member of the drawn directory
AbsentId(ref) ==
    /\ Len(ref) > 0
    /\ \A i \in 1..Len(ref) : ref[i] \in Digits
    /\ \A i \in 1..Len(members) : DecStr(members[i].id) # ref

\* C13: for a ref that begins with the marker display_name returns the guess, that
\* is the ref without that prefix; for the ID of nobody in the directory it
\* returns "User#" followed by the ID; whatever the guild id
C13_DisplayTotal ==
    last.op = "shown" =>
        /\ IsUnresolved(last.ref) => last.shown = Tail(last.ref)
        /\ AbsentId(last.ref) => last.shown = <<USERHASH>> \o last.ref

\* C10: resolve returns the marker followed by the token when nothing matches or
\* no directory is supplied, and the ID of a directory member otherwise; the
\* unresolved reference is never the bare token, and no result is empty
C10_NeverFails ==
    last.op = "resolved" =>
        /\ last.ref # <<>>
        /\ NoEntryMatches(last.token, last.in_guild) =>
            (last.ref = <<MARK>> \o last.token /\ last.ref # last.token)
        /\ ~NoEntryMatches(last.token, last.in_guild) =>
            \E i \in 1..Len(members) : last.ref = DecStr(members[i].id)

\* a token was resolved against a directory with members, none of which matched
C10_Witness ==
    /\ last.op = "resolved"
    /\ last.in_guild
    /\ Len(members) > 0
    /\ NoEntryMatches(last.token, last.in_guild)
    /\ last.ref = <<MARK>> \o last.token

(***************************************************************************)
(* update_user_stats on its own: a statistics table and one record are     *)
(* drawn, the record is ingested                                           *)
(***************************************************************************)
\* the participants of the drawn rows and records: an ID and an unresolved token
StatsUsers == {<<"2">>, <<MARK, "a">>}

\* what a row of user_stats holds after one loss, after a win and a loss, and
\* after one report whose numerator is the largest that fits the column
StatsValues ==
    { [total_score |-> 4, games_played |-> 1, wins |-> 0],
      [total_score |-> 7, games_played |-> 2, wins |-> 1],
      [total_score |-> MaxInteger, games_played |-> 1, wins |-> 0] }

StatsRow(guild_id, username, v) ==
    [guild_id |-> guild_id, username |-> username, total_score |-> v.total_score,
     games_played |-> v.games_played, wins |-> v.wins]

\* the tables of the guild: at most one row for each participant
StatsTables ==
    {t \in SUBSET {StatsRow(GuildIdStr(TRUE), u, v) : u \in StatsUsers, v \in StatsValues} :
        \A r, q \in t : r.username = q.username => r = q}

\* the scores int(match.group(2)) can be: any natural number
StatsScores == {0, 3, 4, 7, Big}

StatsRecords ==
    {[user |-> u, score |-> n, date |-> 1, is_winner |-> w] :
        u \in StatsUsers, n \in StatsScores, w \in BOOLEAN}

InitStats ==
    /\ members = <<>>
    /\ wordle_scores = {}
    /\ user_stats \in StatsTables
    /\ today = 1
    /\ ingests = 0
    /\ select_ok = TRUE
    /\ last \in {[op |-> "record", score |-> r] : r \in StatsRecords}

StatsCall ==
    /\ last.op = "record"
    /\ user_stats' = update_user_stats(user_stats, GuildIdStr(TRUE), <<last.score>>)
    /\ last' = [op |-> "updated", score |-> last.score, before |-> user_stats]
    /\ UNCHANGED <<members, wordle_scores, today, ingests, select_ok>>

SpecStats == InitStats /\ [][StatsCall]_vars

\* the rows of a table that belong to the participant of the guild
RowsOf(table, guild_id, username) ==
    {r \in table : r.guild_id = guild_id /\ r.username = username}

\* the participant's row before the record, or the zeros of a participant with none
PriorOf(table, guild_id, username) ==
    IF RowsOf(table, guild_id, username) = {}
    THEN [total_score |-> 0, games_played |-> 0, wins |-> 0]
    ELSE CHOOSE r \in RowsOf(table, guild_id, username) : TRUE

\* the row is the prior one with the record added to it
AddedTo(prior, r, score) ==
    /\ r.games_played - prior.games_played = 1
    /\ r.total_score - prior.total_score = score.score
    /\ r.wins - prior.wins = (IF score.is_winner THEN 1 ELSE 0)

\* C11: ingesting one record leaves the participant with exactly one row, which
\* is the prior row (or zeros) with the score added to total_score, 1 added to
\* games_played and 1 added to wins iff the record is a winner record; every
\* other row is as it was
C11_StatsRule ==
    last.op = "updated" =>
        /\ user_stats \ RowsOf(user_stats, GuildIdStr(TRUE), last.score.user)
             = last.before \ RowsOf(last.before, GuildIdStr(TRUE), last.score.user)
        /\ Cardinality(RowsOf(user_stats, GuildIdStr(TRUE), last.score.user)) = 1
        /\ \A r \in RowsOf(user_stats, GuildIdStr(TRUE), last.score.user) :
              AddedTo(PriorOf(last.before, GuildIdStr(TRUE), last.score.user), r, last.score)

====
